---------------------------- MODULE Spec2Model ----------------------------
(***************************************************************************)
(* A model of the map-matching pipeline of eg-speedrun                     *)
(* (src/eg-speedrun/gpstrack.py, driven by src/eg-speedrun/main.py):       *)
(*   - my_hash and the process-wide request cache of GPSTrack.match_graph, *)
(*   - the parsing of a Valhalla trace_attributes response and the         *)
(*     resolution of way ids to graph edges,                               *)
(*   - GPSTrack.fill_gaps,                                                 *)
(*   - GPSTrack.match_graph2 (nearest edge plus streak heuristic).         *)
(* The street graph G is an input of the program; the model fixes one      *)
(* small unsimplified graph (main.py builds it with simplify=False) whose  *)
(* edges are straight, axis-aligned segments on an integer metre grid, so  *)
(* that every distance comparison of the code is decided exactly on        *)
(* squared integer distances.                                              *)
(***************************************************************************)
EXTENDS Integers, Sequences, FiniteSets, TLC

VARIABLES
    phase,          \* where main.py is: "setup" | "matching" | "crashed"
    cache_path,     \* GPSTrack.cache_path: None or a path
    request_cache,  \* GPSTrack.request_cache: None or a dict key -> text
    disk,           \* the file system: the cache directory and the cache file
    ncalls,         \* number of match_graph calls made so far (capped by MaxCalls)
    served,         \* history: payload -> what the call that fetched it in this process gave
    call,           \* record of the last match_graph call
    resp,           \* the response document handed to the parsing code
    parsed,         \* what the parsing/resolving code made of resp
    fg_in,          \* the arguments of a fill_gaps call
    fg_out,         \* the trace and result of that call
    m2_in,          \* the samples of the track given to match_graph2
    m2_out,         \* the trace and result of that call
    tie_order,      \* how the libraries order rows of equal distance
    track,          \* a GPSTrack object: how it was built and its fields
    loop            \* the matching loop of main(): the batch and how far it got

vars == <<phase, cache_path, request_cache, disk, ncalls, served, call,
          resp, parsed, fg_in, fg_out, m2_in, m2_out, tie_order, track, loop>>

None == "None"

(***************************************************************************)
(* Small helpers.                                                          *)
(***************************************************************************)
Min(a, b) == IF a < b THEN a ELSE b

Max(a, b) == IF a > b THEN a ELSE b

Range(s) == {s[i] : i \in 1..Len(s)}

\* Body applied to the value of e (e is evaluated once)
With(e, Body(_)) == CHOOSE r \in {Body(v) : v \in {e}} : TRUE

\* the least element of a non-empty set of integers
Least(S) == CHOOSE x \in S : \A y \in S : x <= y

RECURSIVE Concat(_)
\* the concatenation of a sequence of sequences
Concat(ss) == IF ss = <<>> THEN <<>> ELSE Head(ss) \o Concat(Tail(ss))

RECURSIVE SumSeq(_)
SumSeq(s) == IF s = <<>> THEN 0 ELSE Head(s) + SumSeq(Tail(s))

\* the tuple <<f(1), ..., f(n)>>, every element computed once
Tabulate(f(_), n) == SubSeq([i \in 1..n |-> f(i)], 1, n)

\* all sequences over S of length at most n
SeqUpTo(S, n) == UNION {[1..k -> S] : k \in 0..n}

(***************************************************************************)
(* The street graph G (an osmnx MultiDiGraph, unsimplified).               *)
(*                                                                         *)
(*   1 ==== 2 ==== 3 ----> 4 ----> 5 ----> 6          y = 0                *)
(*   0      20     40      55      60      65                              *)
(*                                         ||                              *)
(*   10 ----> 9 ----> 8 ================== 7          y = 50               *)
(*   5        25      45                   65                              *)
(*                                                                         *)
(* ==== is a two-way street (both directed edges), ----> a one-way edge.   *)
(* Between 4 and 5 there are two parallel edges (keys 0 and 1).  Ways: 100 *)
(* is 1-2-3, 300 is 3->4->5->6 (key 0), 301 the parallel edge (4,5,1),     *)
(* 400 and 401 are merged on 6-7, 500 is 7-8, 600 is 10->9->8.             *)
(***************************************************************************)
NumNodes == 10

Nodes == 1..NumNodes

\* gdf_nodes: the position <<x, y>> of each node
NodeXY ==
    << <<0, 0>>, <<20, 0>>, <<40, 0>>, <<55, 0>>, <<60, 0>>, <<65, 0>>,
       <<65, 50>>, <<45, 50>>, <<25, 50>>, <<5, 50>> >>

\* osmid is an int (isint) or a list of ints, as osmnx stores it
WayInt(w) == [isint |-> TRUE, ids |-> <<w>>]

WayList(ws) == [isint |-> FALSE, ids |-> ws]

\* the rows of ox.graph_to_gdfs(G, nodes=False), in index order (pos), which
\* is the order of G.edges(keys=True, data=True)
GdfEdges ==
    { [pos |-> 1,  id |-> <<1, 2, 0>>, osmid |-> WayInt(100), length |-> 20],
      [pos |-> 2,  id |-> <<2, 1, 0>>, osmid |-> WayInt(100), length |-> 20],
      [pos |-> 3,  id |-> <<2, 3, 0>>, osmid |-> WayInt(100), length |-> 20],
      [pos |-> 4,  id |-> <<3, 2, 0>>, osmid |-> WayInt(100), length |-> 20],
      [pos |-> 5,  id |-> <<3, 4, 0>>, osmid |-> WayInt(300), length |-> 15],
      [pos |-> 6,  id |-> <<4, 5, 0>>, osmid |-> WayInt(300), length |-> 5],
      [pos |-> 7,  id |-> <<4, 5, 1>>, osmid |-> WayInt(301), length |-> 8],
      [pos |-> 8,  id |-> <<5, 6, 0>>, osmid |-> WayInt(300), length |-> 5],
      [pos |-> 9,  id |-> <<6, 7, 0>>, osmid |-> WayList(<<400, 401>>), length |-> 50],
      [pos |-> 10, id |-> <<7, 6, 0>>, osmid |-> WayList(<<400, 401>>), length |-> 50],
      [pos |-> 11, id |-> <<7, 8, 0>>, osmid |-> WayInt(500), length |-> 20],
      [pos |-> 12, id |-> <<8, 7, 0>>, osmid |-> WayInt(500), length |-> 20],
      [pos |-> 13, id |-> <<9, 8, 0>>, osmid |-> WayInt(600), length |-> 20],
      [pos |-> 14, id |-> <<10, 9, 0>>, osmid |-> WayInt(600), length |-> 20] }

\* gdf_edges.index
EdgeIds == {r.id : r \in GdfEdges}

\* the rows of the edges from u to v (parallel edges differ in their key)
RowsBetween(u, v) == {r \in GdfEdges : r.id[1] = u /\ r.id[2] = v}

\* gdf_edges.loc[e]
EdgeRow(e) == CHOOSE r \in GdfEdges : r.id = e

(***************************************************************************)
(* Geometry.  A point is <<lat, lon>> as in GPSTrack.points; shapely gets  *)
(* Point(lon, lat), so x = lon = p[2] and y = lat = p[1].  The geometry of *)
(* an edge is the straight segment between its end nodes.                  *)
(***************************************************************************)
Clamp(v, lo, hi) == IF v < lo THEN lo ELSE IF v > hi THEN hi ELSE v

Sq(a) == a * a

\* squared distance between the positions <<ax, ay>> and <<bx, by>>
PointDist2(ax, ay, bx, by) == Sq(ax - bx) + Sq(ay - by)

\* squared distance from (x, y) to the segment from a to b: the segments are
\* axis-aligned, so the nearest point of the segment is the clamp of (x, y)
\* to its bounding box
SegmentDist2(a, b, x, y) ==
    PointDist2(x, y, Clamp(x, Min(a[1], b[1]), Max(a[1], b[1])),
                     Clamp(y, Min(a[2], b[2]), Max(a[2], b[2])))

\* row.geometry.distance(Point(x, y)), squared, for the edge e
GeomDist2(e, x, y) == SegmentDist2(NodeXY[e[1]], NodeXY[e[2]], x, y)

(***************************************************************************)
(* my_hash.  Python computes on unbounded integers and masks with          *)
(* 0xffffffff; the accumulator is kept here as two 16-bit limbs <<hi, lo>> *)
(* so that no intermediate value leaves the range of the checker's         *)
(* integers.  A text is a sequence of character codes (ord(ch)).           *)
(***************************************************************************)
Limb == 65536

RECURSIVE XorBits(_, _, _)
\* bitwise exclusive or of the n low bits of a and b
XorBits(a, b, n) ==
    IF n = 0 THEN 0
    ELSE (((a % 2) + (b % 2)) % 2) + 2 * XorBits(a \div 2, b \div 2, n - 1)

Xor16(a, b) == XorBits(a, b, 16)

\* (hi*Limb + lo) ^ m, limb by limb
XorLimbs(hi, lo, m) == << Xor16(hi % Limb, (m \div Limb) % Limb), Xor16(lo % Limb, m % Limb) >>

\* h := ((h*281 ^ ord(ch)*997) & 0xffffffff); * binds tighter than ^
HashStep(h, ch) ==
    With(h[2] * 281, LAMBDA plo : XorLimbs(h[1] * 281 + (plo \div Limb), plo, ch * 997))

RECURSIVE HashRange(_, _, _, _)
\* the list comprehension of my_hash over text[i..j], left to right; the range
\* is halved so that the evaluation stays shallow on long payloads
HashRange(h, text, i, j) ==
    IF i > j THEN h
    ELSE IF i = j THEN HashStep(h, text[i])
    ELSE With((i + j) \div 2, LAMBDA mid :
            With(HashRange(h, text, i, mid), LAMBDA h1 : HashRange(h1, text, mid + 1, j)))

RECURSIVE DecimalDigits(_, _)
\* the decimal digits of hi*Limb + lo > 0, most significant first, by long
\* division by 10
DecimalDigits(hi, lo) ==
    IF hi = 0 /\ lo = 0 THEN <<>>
    ELSE With((hi % 10) * Limb + lo, LAMBDA t :
            Append(DecimalDigits(hi \div 10, t \div 10), 48 + (t % 10)))

\* str(h)
Str32(h) == IF h = <<0, 0>> THEN <<48>> ELSE DecimalDigits(h[1], h[2])

my_hash(text) == With(text, LAMBDA t : Str32(HashRange(<<0, 0>>, t, 1, Len(t))))

(***************************************************************************)
(* The request payload: json.dumps of the OrderedDict built by match_graph.*)
(* Coordinates are floats in the program; the model's are whole numbers,   *)
(* which json.dumps renders as "<digits>.0".                               *)
(***************************************************************************)
RECURSIVE NatDigits(_)
NatDigits(n) ==
    IF n < 10 THEN <<48 + n>> ELSE Append(NatDigits(n \div 10), 48 + (n % 10))

\* repr of a whole, non-negative float
FloatRepr(n) == NatDigits(n) \o <<46, 48>>

\* {"lat": p[0], "lon": p[1]}
DumpsPoint(p) ==
    <<123, 34, 108, 97, 116, 34, 58, 32>> \o FloatRepr(p[1])
        \o <<44, 32, 34, 108, 111, 110, 34, 58, 32>> \o FloatRepr(p[2]) \o <<125>>

RECURSIVE DumpsShape(_)
\* the items of the "shape" list, separated by ", "
DumpsShape(points) ==
    IF points = <<>> THEN <<>>
    ELSE DumpsPoint(Head(points))
             \o (IF Len(points) = 1 THEN <<>> ELSE <<44, 32>> \o DumpsShape(Tail(points)))

\* json.dumps(d): {"shape": [...], "costing": "pedestrian", "shape_match": "map_snap"}
DumpsRequest(points) ==
    <<123, 34, 115, 104, 97, 112, 101, 34, 58, 32, 91>> \o DumpsShape(points)
        \o <<93, 44, 32, 34, 99, 111, 115, 116, 105, 110, 103, 34, 58, 32, 34, 112,
             101, 100, 101, 115, 116, 114, 105, 97, 110, 34, 44, 32, 34, 115, 104, 97,
             112, 101, 95, 109, 97, 116, 99, 104, 34, 58, 32, 34, 109, 97, 112, 95,
             115, 110, 97, 112, 34, 125>>

\* request_hash = my_hash(json.dumps(d))
RequestHash(points) == my_hash(DumpsRequest(points))

(***************************************************************************)
(* networkx / osmnx: ox.shortest_path(G, origs, dests) with the default    *)
(* weight "length".  A MultiDiGraph edge weighs the least length of its    *)
(* parallel edges.  Distances are computed by Bellman-Ford rounds; the     *)
(* graph above has no two shortest paths of equal length between the same  *)
(* nodes, so the path returned does not depend on the library's            *)
(* tie-breaking.                                                           *)
(***************************************************************************)
\* the greatest edge length of the graph
LongestEdge == CHOOSE l \in {r.length : r \in GdfEdges} : \A q \in GdfEdges : q.length <= l

\* a distance no path reaches: stands for "no path"
Unreachable == NumNodes * LongestEdge + 1

\* one relaxation of node n under the distances d
RelaxNode(d, n) ==
    Least({d[n]} \cup {d[r.id[1]] + r.length : r \in {q \in GdfEdges : q.id[2] = n}})

RECURSIVE Relax(_, _)
\* k rounds of relaxation of all nodes
Relax(d, k) ==
    IF k = 0 THEN d
    ELSE With(Tabulate(LAMBDA n : RelaxNode(d, n), NumNodes), LAMBDA d1 : Relax(d1, k - 1))

\* the weighted distance from s to every node
DistancesFrom(s) ==
    Relax(Tabulate(LAMBDA n : IF n = s THEN 0 ELSE Unreachable, NumNodes), NumNodes - 1)

Distance == Tabulate(DistancesFrom, NumNodes)

RECURSIVE PathTo(_, _, _)
\* the node list of the shortest path from s to t, ds being the distances from s
PathTo(ds, s, t) ==
    IF t = s THEN <<s>>
    ELSE With(CHOOSE r \in GdfEdges : r.id[2] = t /\ ds[r.id[1]] + r.length = ds[t],
              LAMBDA r : Append(PathTo(ds, s, r.id[1]), t))

\* osmnx turns networkx's NetworkXNoPath into the result None
NoPath == [isNone |-> TRUE, nodes |-> <<>>]

PathResult(ds, s, t) ==
    IF ds[t] >= Unreachable THEN NoPath ELSE [isNone |-> FALSE, nodes |-> PathTo(ds, s, t)]

PathsFrom(s) ==
    With(Distance[s], LAMBDA ds : Tabulate(LAMBDA t : PathResult(ds, s, t), NumNodes))

Paths == Tabulate(PathsFrom, NumNodes)

\* ox.shortest_path(G, [orig, orig], [dest1, dest2]); networkx raises
\* NodeNotFound when orig is not a node of G
shortest_path(orig, dest1, dest2) ==
    IF orig \notin Nodes
    THEN [NodeNotFound |-> TRUE, u_path |-> NoPath, v_path |-> NoPath]
    ELSE With(Paths[orig], LAMBDA row :
             [NodeNotFound |-> FALSE, u_path |-> row[dest1], v_path |-> row[dest2]])

(***************************************************************************)
(* GPSTrack.fill_gaps                                                      *)
(***************************************************************************)
filler_thresh_length == 30

filler_thresh_num_nodes == 6

\* (u, v, _) with u and v swapped if u > v
Normalised(e) == IF e[1] > e[2] THEN <<e[2], e[1]>> ELSE <<e[1], e[2]>>

RECURSIVE UniFrom(_, _)
\* the first loop of fill_gaps: uni is matched_graph_edges_uni so far
UniFrom(uni, edges) ==
    IF edges = <<>> THEN uni
    ELSE With(Normalised(Head(edges)), LAMBDA n :
             UniFrom(IF uni = <<>> \/ uni[Len(uni)] # n THEN Append(uni, n) ELSE uni,
                     Tail(edges)))

matched_graph_edges_uni(edges) == UniFrom(<<>>, edges)

\* edge_dict[(u, v)]['length']: G.edges(data=True) yields parallel edges in
\* key order and each overwrites the entry of the one before
EdgeDictLength(u, v) ==
    (CHOOSE r \in RowsBetween(u, v) : \A q \in RowsBetween(u, v) : q.pos <= r.pos).length

RECURSIVE path_length(_)
path_length(path) ==
    IF Len(path) < 2 THEN 0
    ELSE EdgeDictLength(path[1], path[2]) + path_length(Tail(path))

\* zip(path[:-1], path[1:])
PathEdges(path) == Tabulate(LAMBDA i : <<path[i], path[i + 1]>>, Len(path) - 1)

\* what one iteration of the gap loop did: pos is next_node before it, next is
\* next_node after it, added are the pairs it appended to filler_edges
Step(e_cur, e_next, pos, kind, path, length, added, next) ==
    [e_cur |-> e_cur, e_next |-> e_next, pos |-> pos, kind |-> kind, path |-> path,
     length |-> length, added |-> added, next |-> next]

\* a choice that moves to the node where the chosen path ends
ChoosePath_stays_at_path_end(u_path, v_path, e_next) ==
    With(<<path_length(u_path), path_length(v_path)>>, LAMBDA l :
        IF l[1] < l[2]
        THEN [path |-> u_path, length |-> l[1], pot_next_node |-> e_next[1]]
        ELSE [path |-> v_path, length |-> l[2], pot_next_node |-> e_next[2]])

\* the choice between u_path and v_path
ChoosePath(u_path, v_path, e_next) ==
    With(<<path_length(u_path), path_length(v_path)>>, LAMBDA l :
        IF l[1] < l[2]
        THEN [path |-> u_path, length |-> l[1], pot_next_node |-> e_next[2]]
        ELSE [path |-> v_path, length |-> l[2], pot_next_node |-> e_next[1]])

\* a threshold test that forgets the node count
WithinThresholds_length_only(length, path, tl, tn) == length < tl

\* the threshold test
WithinThresholds(length, path, tl, tn) == length < tl /\ Len(path) < tn

\* the end of the iteration, for the candidate c
Threshold(e_cur, e_next, pos, c, tl, tn) ==
    IF WithinThresholds(c.length, c.path, tl, tn)
    THEN Step(e_cur, e_next, pos, "filled", c.path, c.length, PathEdges(c.path),
              c.pot_next_node)
    ELSE Step(e_cur, e_next, pos, "discarded", c.path, c.length, <<>>, -1)

\* a gap that keeps the position when an endpoint cannot be reached
Gap_keeps_position(e_cur, e_next, pos, tl, tn) ==
    With(shortest_path(pos, e_next[1], e_next[2]), LAMBDA sp :
        IF sp.NodeNotFound
        THEN Step(e_cur, e_next, pos, "notfound", <<>>, 0, <<>>, -1)
        ELSE IF sp.u_path.isNone \/ sp.v_path.isNone
        THEN Step(e_cur, e_next, pos, "nopath", <<>>, 0, <<>>, pos)
        ELSE Threshold(e_cur, e_next, pos,
                       ChoosePath(sp.u_path.nodes, sp.v_path.nodes, e_next), tl, tn))

\* the iteration for two edges that are not connected
Gap(e_cur, e_next, pos, tl, tn) ==
    With(shortest_path(pos, e_next[1], e_next[2]), LAMBDA sp :
        IF sp.NodeNotFound
        THEN Step(e_cur, e_next, pos, "notfound", <<>>, 0, <<>>, -1)
        ELSE IF sp.u_path.isNone \/ sp.v_path.isNone
        THEN Step(e_cur, e_next, pos, "nopath", <<>>, 0, <<>>, -1)
        ELSE Threshold(e_cur, e_next, pos,
                       ChoosePath(sp.u_path.nodes, sp.v_path.nodes, e_next), tl, tn))

\* an iteration that remembers the node two connected edges share
FillIteration_remembers_shared(e_cur, e_next, next_node, tl, tn) ==
    IF e_next[1] \in {e_cur[1], e_cur[2]}
    THEN Step(e_cur, e_next, next_node, "connected", <<>>, 0, <<>>, e_next[1])
    ELSE IF e_next[2] \in {e_cur[1], e_cur[2]}
    THEN Step(e_cur, e_next, next_node, "connected", <<>>, 0, <<>>, e_next[2])
    ELSE Gap(e_cur, e_next, next_node, tl, tn)

\* an iteration that does not remember where two connected edges end
FillIteration_forgets_position(e_cur, e_next, next_node, tl, tn) ==
    IF e_next[1] \in {e_cur[1], e_cur[2]} \/ e_next[2] \in {e_cur[1], e_cur[2]}
    THEN Step(e_cur, e_next, next_node, "connected", <<>>, 0, <<>>, -1)
    ELSE Gap(e_cur, e_next, next_node, tl, tn)

\* one iteration of the loop over zip(mgeu[:-1], mgeu[1:])
FillIteration(e_cur, e_next, next_node, tl, tn) ==
    IF e_next[1] \in {e_cur[1], e_cur[2]}
    THEN Step(e_cur, e_next, next_node, "connected", <<>>, 0, <<>>, e_next[2])
    ELSE IF e_next[2] \in {e_cur[1], e_cur[2]}
    THEN Step(e_cur, e_next, next_node, "connected", <<>>, 0, <<>>, e_next[1])
    ELSE Gap(e_cur, e_next, next_node, tl, tn)

RECURSIVE FillLoop(_, _, _, _, _)
\* the iterations from the pair (mgeu[i], mgeu[i+1]) on
FillLoop(mgeu, i, next_node, tl, tn) ==
    IF i >= Len(mgeu) THEN <<>>
    ELSE With(FillIteration(mgeu[i], mgeu[i + 1], next_node, tl, tn), LAMBDA st :
             <<st>> \o FillLoop(mgeu, i + 1, st.next, tl, tn))

\* filler_edges after the loop
FillerEdges(steps) == Concat(Tabulate(LAMBDA i : steps[i].added, Len(steps)))

\* a last loop that returns one directed form per pair
FillerGraphEdgesOf_one_direction(p) ==
    IF <<p[1], p[2], 0>> \in EdgeIds THEN << <<p[1], p[2], 0>> >>
    ELSE IF <<p[2], p[1], 0>> \in EdgeIds THEN << <<p[2], p[1], 0>> >>
    ELSE <<>>

\* the two membership tests of the last loop, for the pair p
FillerGraphEdgesOf(p) ==
    (IF <<p[1], p[2], 0>> \in EdgeIds THEN << <<p[1], p[2], 0>> >> ELSE <<>>)
        \o (IF <<p[2], p[1], 0>> \in EdgeIds THEN << <<p[2], p[1], 0>> >> ELSE <<>>)

\* filler_graph_edges
FillerGraphEdges(filler_edges) ==
    Concat(Tabulate(LAMBDA i : FillerGraphEdgesOf(filler_edges[i]), Len(filler_edges)))

FillResult(uni, steps, filler_edges) ==
    [uni |-> uni, steps |-> steps, filler_edges |-> filler_edges,
     result |-> FillerGraphEdges(filler_edges)]

\* fill_gaps(G, edges, tl, tn): its return value is .result, the rest is the
\* trace of the call
fill_gaps(edges, tl, tn) ==
    With(matched_graph_edges_uni(edges), LAMBDA uni :
        With(FillLoop(uni, 1, -1, tl, tn), LAMBDA steps :
            FillResult(uni, steps, FillerEdges(steps))))

(***************************************************************************)
(* Rows of equal distance: pandas sort_values (quicksort) and the spatial  *)
(* index of osmnx.nearest_edges promise no order among them; the order is  *)
(* an input of the model, the same throughout a run.                       *)
(***************************************************************************)
TieOrders == {"index", "reversed"}

\* whether row a (distance a.d2, index position a.pos) sorts before row b
Before(a, b, tie) ==
    \/ a.d2 < b.d2
    \/ a.d2 = b.d2 /\ (IF tie = "index" THEN a.pos < b.pos ELSE a.pos > b.pos)

\* the row of a non-empty set that sorts first
FirstRow(rows, tie) == CHOOSE a \in rows : \A b \in rows \ {a} : Before(a, b, tie)

RECURSIVE SortRows(_, _)
\* sort_values("distance"): the rows of the set, in order
SortRows(rows, tie) ==
    IF rows = {} THEN <<>>
    ELSE With(FirstRow(rows, tie), LAMBDA first : <<first>> \o SortRows(rows \ {first}, tie))

(***************************************************************************)
(* GPSTrack.match_graph from json.loads on: the response document is       *)
(* [matched_points |-> <<[type, edge_index, lat, lon], ...>>,              *)
(*  edges |-> <<[way_id], ...>>].                                          *)
(***************************************************************************)
\* [p for p in res["matched_points"] if p["type"] == "matched"]
MatchedOnly(points) == SelectSeq(points, LAMBDA p : p.type = "matched")

\* (type(x) == int and way_id == x) or (type(x) == list and way_id in x)
OsmidMask(osmid, way_id) ==
    \/ osmid.isint /\ way_id = osmid.ids[1]
    \/ ~osmid.isint /\ way_id \in Range(osmid.ids)

\* edge_index >= len(edges)
IndexOutOfBounds(edge_index, edges) == edge_index >= Len(edges)

\* gdf_edges[mask] with the column distance = row.geometry.distance(p), where
\* p = Point(lon, lat)
WithDistance(way_id, lat, lon) ==
    {[id |-> r.id, pos |-> r.pos, d2 |-> GeomDist2(r.id, lon, lat)] :
        r \in {q \in GdfEdges : OsmidMask(q.osmid, way_id)}}

\* a resolver that always takes the first row alone
ClosestRows_first_only(sorted) == <<sorted[1].id>>

\* sorted[:2] when the two closest rows are equally far, sorted[:1] otherwise
\* (sorted has at least two rows)
ClosestRows(sorted) ==
    IF sorted[2].d2 = sorted[1].d2
    THEN <<sorted[1].id, sorted[2].id>>
    ELSE <<sorted[1].id>>

\* what one iteration of the loop over matched_points did: the rows of the
\* way in sorted order, the edges added to matched_graph_edges
PointStep(mp, kind, sorted, emitted) ==
    [point |-> mp, kind |-> kind, sorted |-> sorted, emitted |-> emitted]

\* the iteration from the mask on; sorted.iloc[1] raises IndexError when the
\* way has a single row
ResolveWay(mp, sorted) ==
    IF Len(sorted) = 0 THEN PointStep(mp, "no_edge", sorted, <<>>)
    ELSE IF Len(sorted) = 1 THEN PointStep(mp, "IndexError", sorted, <<>>)
    ELSE PointStep(mp, "matched", sorted, ClosestRows(sorted))

\* one iteration of the loop over matched_points (edges is 0-based in Python)
ResolvePoint(mp, edges, tie) ==
    IF IndexOutOfBounds(mp.edge_index, edges)
    THEN PointStep(mp, "out_of_bounds", <<>>, <<>>)
    ELSE ResolveWay(mp, SortRows(WithDistance(edges[mp.edge_index + 1].way_id,
                                              mp.lat, mp.lon), tie))

RECURSIVE ResolveLoop(_, _, _, _)
\* the iterations from matched_points[i] on; an exception ends the loop
ResolveLoop(mps, i, edges, tie) ==
    IF i > Len(mps) THEN <<>>
    ELSE With(ResolvePoint(mps[i], edges, tie), LAMBDA st :
             IF st.kind = "IndexError" THEN <<st>>
             ELSE <<st>> \o ResolveLoop(mps, i + 1, edges, tie))

\* matched_graph_edges after the loop
EmittedEdges(log) == Concat(Tabulate(LAMBDA i : log[i].emitted, Len(log)))

\* matchcount after the loop
MatchCount(log) == Cardinality({i \in 1..Len(log) : log[i].kind = "matched"})

\* how the call ends, given the loop's log: matchcount/len(matched_points)
\* divides by zero when no point is matched
ParseOutcome(mps, log) ==
    IF Len(log) > 0 /\ log[Len(log)].kind = "IndexError" THEN "IndexError"
    ELSE IF Len(mps) = 0 THEN "ZeroDivisionError"
    ELSE "return"

\* the end of match_graph: fill_gaps is called with its default thresholds
ParseResult(mps, log, outcome, mge) ==
    [matched_points |-> mps, log |-> log, matchcount |-> MatchCount(log),
     outcome |-> outcome,
     edges  |-> IF outcome = "return" THEN mge ELSE <<>>,
     filler |-> IF outcome = "return"
                THEN fill_gaps(mge, filler_thresh_length, filler_thresh_num_nodes).result
                ELSE <<>>]

\* what match_graph makes of the parsed response res: it returns
\* (edges, filler), or an exception leaves it
ParseResponse(res, tie) ==
    With(MatchedOnly(res.matched_points), LAMBDA mps :
        With(ResolveLoop(mps, 1, res.edges, tie), LAMBDA log :
            ParseResult(mps, log, ParseOutcome(mps, log), EmittedEdges(log))))

(***************************************************************************)
(* The request cache (GPSTrack.cache_path, GPSTrack.request_cache) and its *)
(* file.  A dict is [isNone |-> FALSE, entries |-> a function]; the class  *)
(* attribute starts as None.  The disk is [dir, file]: whether the         *)
(* directory "cache" exists, and the dict dumped into                      *)
(* "cache/requests.json" (isNone: no such file).                           *)
(***************************************************************************)
NoDict == [isNone |-> TRUE, entries |-> <<>>]

EmptyDict == [isNone |-> FALSE, entries |-> <<>>]

\* the paths a user gives --cachefile: one inside a directory, one bare name
CachePaths == {"cache/requests.json", "requests.json"}

\* os.path.dirname(path)
Dirname(path) == IF path = "cache/requests.json" THEN "cache" ELSE ""

\* os.path.isdir(dir) on the disk d; isdir("") is False
IsDir(d, dir) == dir = "cache" /\ d.dir

\* os.path.isfile(path) on the disk d
IsFile(d, path) == path = "cache/requests.json" /\ d.dir /\ ~d.file.isNone

\* a cache that is never consulted
CacheMiss_always(cache, request_hash) == TRUE

\* request_hash not in GPSTrack.request_cache
CacheMiss(cache, request_hash) == request_hash \notin DOMAIN cache.entries

\* GPSTrack.request_cache[request_hash] = r.text
CacheStore(cache, request_hash, text) ==
    [isNone |-> FALSE, entries |-> (request_hash :> text) @@ cache.entries]

\* GPSTrack.set_cachefile(filepath): the new request_cache; json.load gives
\* back the dict that flush_cachefile dumped
set_cachefile(filepath, cache, d) == IF IsFile(d, filepath) THEN d.file ELSE cache

\* GPSTrack.flush_cachefile(): the disk afterwards.  os.makedirs(dir) creates
\* the directory, but os.makedirs("") raises FileNotFoundError
flush_cachefile(path, cache, d) ==
    IF path = None \/ cache.isNone THEN [raised |-> FALSE, wrote |-> FALSE, disk |-> d]
    ELSE IF ~IsDir(d, Dirname(path)) /\ Dirname(path) = ""
    THEN [raised |-> TRUE, wrote |-> FALSE, disk |-> d]
    ELSE [raised |-> FALSE, wrote |-> TRUE, disk |-> [dir |-> TRUE, file |-> cache]]

(***************************************************************************)
(* The tracks of the batch and the answers of the Valhalla server.  A      *)
(* response text is a number naming its document; json.loads looks it up.  *)
(***************************************************************************)
\* tracks 1 and 2 hold the same samples (the same activity exported twice)
Tracks ==
    << [name |-> "a", points |-> << <<0, 10>> >>],
       [name |-> "b", points |-> << <<0, 10>> >>],
       [name |-> "c", points |-> << <<0, 10>>, <<0, 30>>, <<0, 63>> >>] >>

\* json.dumps(d) of each track of the batch
Payloads == Tabulate(LAMBDA i : DumpsRequest(Tracks[i].points), Len(Tracks))

\* request_hash of each track of the batch
RequestHashes == Tabulate(LAMBDA i : my_hash(Payloads[i]), Len(Tracks))

MatchedPoint(edge_index, lat, lon) ==
    [type |-> "matched", edge_index |-> edge_index, lat |-> lat, lon |-> lon]

UnmatchedPoint == [type |-> "unmatched", edge_index |-> 0, lat |-> 0, lon |-> 0]

\* res["edges"] for the way ids ws
WayIds(ws) == Tabulate(LAMBDA i : [way_id |-> ws[i]], Len(ws))

ResponseDocs ==
    << \* a point on the two-way street 1-2
       [matched_points |-> <<MatchedPoint(0, 0, 10)>>, edges |-> WayIds(<<100>>)],
       \* a route 1-2, 2-3, then 5-6: a gap after node 3
       [matched_points |-> <<MatchedPoint(0, 0, 10), UnmatchedPoint,
                             MatchedPoint(0, 0, 30), MatchedPoint(1, 0, 63)>>,
        edges |-> WayIds(<<100, 300>>)],
       \* a point on the parallel edge (4,5,1), the only edge of way 301
       [matched_points |-> <<MatchedPoint(0, 0, 57)>>, edges |-> WayIds(<<301>>)],
       \* nothing matched
       [matched_points |-> <<UnmatchedPoint>>, edges |-> <<>>],
       \* an edge index past the edge list, a way that is not in G, a point on 7-8
       [matched_points |-> <<MatchedPoint(3, 0, 10), MatchedPoint(1, 0, 10),
                             MatchedPoint(2, 50, 50)>>,
        edges |-> WayIds(<<100, 999, 500>>)] >>

ResponseTexts == 1..Len(ResponseDocs)

\* json.loads(text)
json_loads(text) == ResponseDocs[text]

StatusCodes == {200, 404, 503}

MaxCalls == 2

\* what a call of match_graph did and gave: the class attribute and the disk
\* afterwards, the number of requests.post calls and of flush_cachefile
\* calls, whether the file was written, the text handed to json.loads, and
\* the outcome: "None", "return" (edges, filler) or the exception raised
CallResult(cache, d, net, flushes, wrote, outcome, parsed_text, edges, filler) ==
    [request_cache |-> cache, disk |-> d, net |-> net, flushes |-> flushes,
     wrote |-> wrote, outcome |-> outcome, parsed_text |-> parsed_text,
     edges |-> edges, filler |-> filler]

\* match_graph from text = GPSTrack.request_cache[request_hash] on
AfterLookup(cache, d, net, flushes, wrote, text, res) ==
    CallResult(cache, d, net, flushes, wrote, res.outcome, text, res.edges, res.filler)

Lookup(cache, request_hash, d, net, flushes, wrote, tie) ==
    AfterLookup(cache, d, net, flushes, wrote, cache.entries[request_hash],
                ParseResponse(json_loads(cache.entries[request_hash]), tie))

\* match_graph after GPSTrack.request_cache[request_hash] = r.text: fl is what
\* flush_cachefile did
AfterFlush(cache, request_hash, d, fl, tie) ==
    IF fl.raised
    THEN CallResult(cache, d, 1, 1, FALSE, "FileNotFoundError", 0, <<>>, <<>>)
    ELSE Lookup(cache, request_hash, fl.disk, 1, 1, fl.wrote, tie)

\* a miss that caches whatever the server answers, before looking at the status
Fetch_any_status(cache, request_hash, path, d, status, text, tie) ==
    IF status # 200
    THEN CallResult(CacheStore(cache, request_hash, text), d, 1, 0, FALSE, "None", 0,
                    <<>>, <<>>)
    ELSE AfterFlush(CacheStore(cache, request_hash, text), request_hash, d,
                    flush_cachefile(path, CacheStore(cache, request_hash, text), d), tie)

\* the cache miss: requests.post answered with (status, text)
Fetch(cache, request_hash, path, d, status, text, tie) ==
    IF status # 200
    THEN CallResult(cache, d, 1, 0, FALSE, "None", 0, <<>>, <<>>)
    ELSE AfterFlush(CacheStore(cache, request_hash, text), request_hash, d,
                    flush_cachefile(path, CacheStore(cache, request_hash, text), d), tie)

\* match_graph once GPSTrack.request_cache is a dict
Cached(cache, request_hash, path, d, status, text, tie) ==
    IF CacheMiss(cache, request_hash)
    THEN Fetch(cache, request_hash, path, d, status, text, tie)
    ELSE Lookup(cache, request_hash, d, 0, 0, FALSE, tie)

\* match_graph for the request request_hash, the server answering a request
\* that is sent with (status, text)
match_graph(request_hash, cache, path, d, status, text, tie) ==
    Cached(IF cache.isNone THEN EmptyDict ELSE cache, request_hash, path, d,
           status, text, tie)

\* no call yet in this process
NoCall == [kind |-> "none"]

\* history: per payload, what the call that fetched it in this process gave
Unserved == [i \in 1..Len(Tracks) |-> [outcome |-> "unserved", edges |-> <<>>, filler |-> <<>>]]

(***************************************************************************)
(* main.py: setup(), then the loop that calls match_graph for each track.  *)
(* An exception that leaves match_graph is caught nowhere and ends the     *)
(* process; the program can then be started again, with the disk as it is. *)
(***************************************************************************)
\* setup(): if args.cachefile is not None: GPSTrack.set_cachefile(args.cachefile)
Setup(cachefile) ==
    /\ phase = "setup"
    /\ phase' = "matching"
    /\ cache_path' = cachefile
    /\ request_cache' = IF cachefile = None THEN request_cache
                        ELSE set_cachefile(cachefile, request_cache, disk)
    /\ UNCHANGED <<disk, ncalls, served, call, resp, parsed, fg_in, fg_out,
                   m2_in, m2_out, tie_order,
                   track, loop>>

\* the record of a call: the track, what the class attribute and the history
\* were before it, what the server was asked and answered (if it was asked),
\* and what the call did (r)
CallRecord(t, before, prior, status, text, r) ==
    [kind |-> "match", track |-> t, request_hash |-> RequestHashes[t],
     before |-> before, prior |-> prior,
     status |-> IF r.net > 0 THEN status ELSE 0,
     sent |-> IF r.net > 0 THEN text ELSE 0,
     net |-> r.net, flushes |-> r.flushes, wrote |-> r.wrote, outcome |-> r.outcome,
     parsed_text |-> r.parsed_text, edges |-> r.edges, filler |-> r.filler]

\* the history after track t's call r: a call that fetched a 200 answer is the
\* first call of its payload
Serve(hist, t, status, r) ==
    IF r.net = 1 /\ status = 200
    THEN [i \in DOMAIN hist |->
             IF Payloads[i] = Payloads[t]
             THEN [outcome |-> r.outcome, edges |-> r.edges, filler |-> r.filler]
             ELSE hist[i]]
    ELSE hist

\* route = track.match_graph(G, args.valhalla) for track t, the server
\* answering a request that is sent with (status, text)
MatchGraph(t, status, text) ==
    /\ phase = "matching"
    /\ ncalls < MaxCalls
    /\ ncalls' = ncalls + 1
    /\ \E r \in {match_graph(RequestHashes[t], request_cache, cache_path, disk,
                             status, text, tie_order)} :
          /\ request_cache' = r.request_cache
          /\ disk' = r.disk
          /\ call' = CallRecord(t, request_cache, served[t], status, text, r)
          /\ served' = Serve(served, t, status, r)
          /\ phase' = IF r.outcome \in {"None", "return"} THEN phase ELSE "crashed"
    /\ UNCHANGED <<cache_path, resp, parsed, fg_in, fg_out, m2_in, m2_out, tie_order,
                   track, loop>>

\* the process has ended (or crashed) and the program is started again: the
\* class attributes are None again, the disk stays
Restart ==
    /\ phase \in {"matching", "crashed"}
    /\ phase' = "setup"
    /\ cache_path' = None
    /\ request_cache' = NoDict
    /\ served' = Unserved
    /\ call' = NoCall
    /\ UNCHANGED <<disk, ncalls, resp, parsed, fg_in, fg_out, m2_in, m2_out, tie_order,
                   track, loop>>

Init ==
    /\ phase = "setup"
    /\ cache_path = None
    /\ request_cache = NoDict
    /\ disk \in {[dir |-> FALSE, file |-> NoDict], [dir |-> TRUE, file |-> NoDict]}
    /\ ncalls = 0
    /\ served = Unserved
    /\ call = NoCall
    /\ resp = None
    /\ parsed = None
    /\ fg_in = None
    /\ fg_out = None
    /\ m2_in = None
    /\ m2_out = None
    /\ tie_order \in TieOrders
    /\ track = None
    /\ loop = None

Next ==
    \/ \E cachefile \in CachePaths \cup {None} : Setup(cachefile)
    \/ \E t \in 1..Len(Tracks), status \in StatusCodes, text \in ResponseTexts :
           MatchGraph(t, status, text)
    \/ Restart

Spec == Init /\ [][Next]_vars

(***************************************************************************)
(* The request cache: claims C1 to C3, under Spec.                         *)
(***************************************************************************)
\* the last call found its request in the cache / did not
CallHit ==
    /\ call.kind = "match"
    /\ ~call.before.isNone
    /\ call.request_hash \in DOMAIN call.before.entries

CallMissed ==
    /\ call.kind = "match"
    /\ call.before.isNone \/ call.request_hash \notin DOMAIN call.before.entries

\* C1: a call whose payload was already submitted in this process by a call
\* that got HTTP 200 (call.prior is what that call gave) makes no network
\* call and gives what that call gave: the same outcome, the same ordered
\* edges and the same filler edges.
C1_RepeatedRequestServedFromCache ==
    (call.kind = "match" /\ call.prior.outcome # "unserved")
        => /\ call.net = 0
           /\ call.outcome = call.prior.outcome
           /\ call.edges = call.prior.edges
           /\ call.filler = call.prior.filler

\* a second call of a payload, by another track object, returning a route
\* with filler edges without asking the server
C1_Witness ==
    /\ call.kind = "match"
    /\ call.prior.outcome = "return"
    /\ call.track = 2
    /\ call.net = 0
    /\ call.outcome = "return"
    /\ call.edges # <<>>
    /\ call.filler # <<>>

\* C2, the state after the call: a miss answered with a status other than
\* 200 made exactly one network call, returned None, flushed nothing and left
\* the entries of the request cache as they were, without the fingerprint.
C2_FailureState ==
    (CallMissed /\ call.status # 200)
        => /\ call.net = 1
           /\ call.outcome = "None"
           /\ call.flushes = 0
           /\ request_cache.entries
                  = (IF call.before.isNone THEN <<>> ELSE call.before.entries)
           /\ call.request_hash \notin DOMAIN request_cache.entries
           /\ phase = "matching"

\* C2, the next call: if the call that follows such a failure in the same
\* process submits the same payload, it asks the server again.
C2_NextCall ==
    (/\ CallMissed
     /\ call.status # 200
     /\ ncalls' = ncalls + 1
     /\ Payloads[call'.track] = Payloads[call.track])
        => call'.net = 1

\* C2: a cache miss answered with a status other than 200 makes exactly one
\* network call (no retry), returns None and adds no entry to the request
\* cache, so that a later identical request issues a network call again.
C2_FailureNotCached == []C2_FailureState /\ [][C2_NextCall]_vars

\* a failed request whose payload the call before had also failed to fetch:
\* the second network call for the same payload
C2_Witness ==
    /\ CallMissed
    /\ call.status = 503
    /\ call.net = 1
    /\ call.outcome = "None"
    /\ ncalls = 2
    /\ call.track = 2
    /\ ~call.before.isNone
    /\ served[2].outcome = "unserved"

\* C3: on a miss answered with HTTP 200 the response text is stored verbatim
\* under the fingerprint and the cache is flushed to its file (when a cache
\* file is configured) before the response is parsed, by exactly one flush;
\* the text parsed is the text stored; a hit flushes nothing.
C3_StoredAndFlushedBeforeParse ==
    /\ (CallMissed /\ call.status = 200)
          => /\ call.request_hash \in DOMAIN request_cache.entries
             /\ request_cache.entries[call.request_hash] = call.sent
             /\ call.flushes = 1
             /\ cache_path # None => (call.wrote /\ disk.file = request_cache)
             /\ call.parsed_text # 0 => call.parsed_text = call.sent
    /\ CallHit => (call.flushes = 0 /\ ~call.wrote)

\* C3 where the cache file lies in a directory: the flush takes place
C3_InDirectory ==
    cache_path # "requests.json" => C3_StoredAndFlushedBeforeParse

\* the cache file given as a bare file name: the response is stored in the
\* dict, flush_cachefile raises, nothing is written and nothing is parsed
C3_Witness ==
    /\ CallMissed
    /\ call.status = 200
    /\ cache_path = "requests.json"
    /\ call.outcome = "FileNotFoundError"
    /\ request_cache.entries[call.request_hash] = call.sent
    /\ ~call.wrote
    /\ disk.file.isNone
    /\ phase = "crashed"

(***************************************************************************)
(* The parsing and resolving code of match_graph on its own: SpecResolve   *)
(* draws a response document and applies the code from json.loads on.      *)
(***************************************************************************)
MaxPoints == 2

\* the edge indexes of the points: within every edge list, and past the end
\* of the lists of two
ResponseEdgeIndexes == 0..2

\* where the server puts the points: on the street 1-2, on node 5, on node 9,
\* beside the edge 9->8, beside node 2
ResponseCoords == { <<0, 10>>, <<0, 60>>, <<50, 25>>, <<50, 30>>, <<3, 20>> }

ResponsePoints ==
    {UnmatchedPoint}
        \cup {MatchedPoint(i, c[1], c[2]) : i \in ResponseEdgeIndexes, c \in ResponseCoords}

\* res["edges"]: ways of four, three and two edges; a way of a single edge and
\* a merged way; a way that is not in G
ResponseEdges == { WayIds(<<100, 300, 600>>), WayIds(<<301, 401>>), WayIds(<<600, 999>>) }

ResolveInit ==
    /\ phase = "response"
    /\ resp \in [matched_points : SeqUpTo(ResponsePoints, MaxPoints), edges : ResponseEdges]
    /\ parsed = None
    /\ tie_order \in TieOrders
    /\ track = None
    /\ loop = None
    /\ cache_path = None
    /\ request_cache = NoDict
    /\ disk = [dir |-> FALSE, file |-> NoDict]
    /\ ncalls = 0
    /\ served = Unserved
    /\ call = NoCall
    /\ fg_in = None
    /\ fg_out = None
    /\ m2_in = None
    /\ m2_out = None

\* match_graph, lines 166 to 214, on the document resp
Resolve ==
    /\ phase = "response"
    /\ phase' = "parsed"
    /\ parsed' = ParseResponse(resp, tie_order)
    /\ UNCHANGED <<cache_path, request_cache, disk, ncalls, served, call, resp,
                   fg_in, fg_out, m2_in, m2_out, tie_order,
                   track, loop>>

ResolveNext == Resolve

SpecResolve == ResolveInit /\ [][ResolveNext]_vars

(***************************************************************************)
(* fill_gaps on its own: SpecFill draws a route and thresholds.            *)
(***************************************************************************)
MaxRoute == 4

\* the edges a route is drawn from
RouteEdges ==
    { <<1, 2, 0>>, <<2, 1, 0>>, <<2, 3, 0>>, <<3, 4, 0>>, <<4, 5, 0>>, <<5, 6, 0>>,
      <<7, 8, 0>>, <<9, 8, 0>> }

\* (filler_thresh_length, filler_thresh_num_nodes): the defaults, and one
\* tighter value of each
FillThresholds ==
    { <<filler_thresh_length, filler_thresh_num_nodes>>,
      <<filler_thresh_length, 3>>,
      <<15, filler_thresh_num_nodes>> }

FillInit ==
    /\ phase = "route"
    /\ fg_in \in [edges : SeqUpTo(RouteEdges, MaxRoute), thresholds : FillThresholds]
    /\ fg_out = None
    /\ tie_order = "index"
    /\ track = None
    /\ loop = None
    /\ cache_path = None
    /\ request_cache = NoDict
    /\ disk = [dir |-> FALSE, file |-> NoDict]
    /\ ncalls = 0
    /\ served = Unserved
    /\ call = NoCall
    /\ resp = None
    /\ parsed = None
    /\ m2_in = None
    /\ m2_out = None

\* GPSTrack.fill_gaps(G, edges, tl, tn)
FillGaps ==
    /\ phase = "route"
    /\ phase' = "filled"
    /\ fg_out' = fill_gaps(fg_in.edges, fg_in.thresholds[1], fg_in.thresholds[2])
    /\ UNCHANGED <<cache_path, request_cache, disk, ncalls, served, call, resp,
                   parsed, fg_in, m2_in, m2_out, tie_order,
                   track, loop>>

FillNext == FillGaps

SpecFill == FillInit /\ [][FillNext]_vars

(***************************************************************************)
(* The Edge Resolver and the response parsing: claims C4 to C6, under      *)
(* SpecResolve.                                                            *)
(***************************************************************************)
\* the way id the response gives for the point mp, whose edge index is within
\* the edge list
WayOf(mp) == resp.edges[mp.edge_index + 1].way_id

\* the graph edges that carry the way id w, with their squared distance to mp
CandidatesOf(mp, w) ==
    {[id |-> r.id, d2 |-> GeomDist2(r.id, mp.lon, mp.lat)] :
        r \in {q \in GdfEdges : w \in Range(q.osmid.ids)}}

\* the candidates of mp that no candidate is closer than
ClosestOf(mp, w) ==
    {c \in CandidatesOf(mp, w) : \A o \in CandidatesOf(mp, w) : c.d2 <= o.d2}

\* the i-th point the resolver handled lies within the edge list
Handled(i) == parsed.log[i].point.edge_index < Len(resp.edges)

\* C4: a matched point whose way id is carried by exactly one graph edge gets
\* exactly that edge emitted, and the resolver goes on to the next point.
C4_SingleCandidateEmitted ==
    phase = "parsed" =>
        \A i \in 1..Len(parsed.log) :
            (/\ Handled(i)
             /\ Cardinality(CandidatesOf(parsed.log[i].point, WayOf(parsed.log[i].point))) = 1)
                => /\ \E c \in CandidatesOf(parsed.log[i].point, WayOf(parsed.log[i].point)) :
                          parsed.log[i].emitted = <<c.id>>
                   /\ i < Len(parsed.matched_points) => Len(parsed.log) > i

\* the point on the parallel edge (4,5,1), the only edge of way 301: the call
\* ends with IndexError, no edge is emitted and the second point is never
\* looked at
C4_Witness ==
    /\ phase = "parsed"
    /\ Len(parsed.matched_points) = 2
    /\ Len(parsed.log) = 1
    /\ Handled(1)
    /\ WayOf(parsed.log[1].point) = 301
    /\ parsed.log[1].kind = "IndexError"
    /\ parsed.log[1].emitted = <<>>
    /\ parsed.outcome = "IndexError"

\* the i-th point the resolver handled has at least two candidate edges
Contested(i) ==
    /\ Handled(i)
    /\ Cardinality(CandidatesOf(parsed.log[i].point, WayOf(parsed.log[i].point))) >= 2

\* C5: for a point with two or more candidate edges, the closest candidate is
\* emitted; the second closest is emitted with it if and only if it is as
\* close as the closest (so two candidates at equal distance are both
\* emitted, and of two at different distances only the closer one is);
\* nothing else is emitted.
C5_ClosestAndTie ==
    phase = "parsed" =>
        \A i \in 1..Len(parsed.log) :
            Contested(i) =>
                LET em   == parsed.log[i].emitted
                    best == {c.id : c \in ClosestOf(parsed.log[i].point,
                                                    WayOf(parsed.log[i].point))}
                IN  /\ parsed.log[i].kind = "matched"
                    /\ Range(em) \subseteq best
                    /\ IF Cardinality(best) = 1 THEN Len(em) = 1
                       ELSE Len(em) = 2 /\ em[1] # em[2]

\* one response with a point on node 9, where the two edges of way 600 are
\* equally far (both emitted), and a point beside the edge 9->8 (it alone is
\* emitted), and one with three candidates of which two tie
C5_Witness ==
    /\ phase = "parsed"
    /\ Len(parsed.log) = 2
    /\ Contested(1)
    /\ Contested(2)
    /\ \/ /\ WayOf(parsed.log[1].point) = 600
          /\ Range(parsed.log[1].emitted) = {<<10, 9, 0>>, <<9, 8, 0>>}
          /\ WayOf(parsed.log[2].point) = 600
          /\ parsed.log[2].emitted = << <<9, 8, 0>> >>
       \/ /\ WayOf(parsed.log[1].point) = 300
          /\ Range(parsed.log[1].emitted) = {<<4, 5, 0>>, <<5, 6, 0>>}
          /\ WayOf(parsed.log[2].point) = 300
          /\ parsed.log[2].emitted = << <<3, 4, 0>> >>

RECURSIVE TaggedMatched(_)
\* the points of a response that are tagged "matched", in response order
TaggedMatched(points) ==
    IF points = <<>> THEN <<>>
    ELSE (IF Head(points).type = "matched" THEN <<Head(points)>> ELSE <<>>)
             \o TaggedMatched(Tail(points))

\* some point the resolver looks up has a way with a single candidate edge
\* (the case of C4, which ends the call with IndexError)
SomeSingleCandidate ==
    \E j \in 1..Len(TaggedMatched(resp.matched_points)) :
        LET mp == TaggedMatched(resp.matched_points)[j]
        IN  /\ mp.edge_index < Len(resp.edges)
            /\ Cardinality(CandidatesOf(mp, WayOf(mp))) = 1

\* the response holds a matched point whose edge index is not within the
\* edge list
SomeOutOfBounds ==
    \E j \in 1..Len(TaggedMatched(resp.matched_points)) :
        TaggedMatched(resp.matched_points)[j].edge_index >= Len(resp.edges)

\* the points handled are the points tagged "matched", in response order; a
\* point whose edge index is not within the edge list is dropped without the
\* edge list being indexed, emits nothing, and the loop goes on with the
\* next point
DroppedAndContinued ==
    /\ parsed.matched_points = TaggedMatched(resp.matched_points)
    /\ Len(parsed.log) <= Len(parsed.matched_points)
    /\ \A i \in 1..Len(parsed.log) :
          /\ parsed.log[i].point = parsed.matched_points[i]
          /\ (parsed.log[i].kind = "out_of_bounds") <=> ~Handled(i)
          /\ ~Handled(i) =>
                /\ parsed.log[i].emitted = <<>>
                /\ i < Len(parsed.matched_points) => Len(parsed.log) > i

\* the call returns the edges of all the points that were not dropped
Completed ==
    /\ parsed.outcome = "return"
    /\ Len(parsed.log) = Len(parsed.matched_points)
    /\ parsed.edges = EmittedEdges(parsed.log)

\* C6: only the points tagged "matched" are used, in response order; a
\* matched point whose edge index is not within the edge list is dropped
\* without the edge list being indexed, and the call still completes for the
\* remaining points instead of failing.
C6_OutOfBoundsDropped ==
    phase = "parsed" =>
        /\ DroppedAndContinued
        /\ SomeOutOfBounds => Completed

\* C6 where no remaining point has a way with a single candidate edge: the
\* dropped point never ends the call, which returns the remaining edges
C6_UnlessSingleCandidate ==
    phase = "parsed" =>
        /\ DroppedAndContinued
        /\ (SomeOutOfBounds /\ ~SomeSingleCandidate) => Completed

\* a point whose edge index equals the length of the edge list is dropped,
\* and the point after it, on the only edge of way 301, ends the call with
\* IndexError: nothing is returned for the remaining point
C6_Witness ==
    /\ phase = "parsed"
    /\ Len(resp.edges) = 2
    /\ Len(parsed.matched_points) = 2
    /\ parsed.matched_points[1].edge_index = 2
    /\ Len(parsed.log) = 2
    /\ parsed.log[1].kind = "out_of_bounds"
    /\ parsed.log[1].emitted = <<>>
    /\ WayOf(parsed.log[2].point) = 301
    /\ parsed.log[2].kind = "IndexError"
    /\ parsed.outcome = "IndexError"

(***************************************************************************)
(* The Gap Filler: claims C7 and C8, under SpecFill.                       *)
(***************************************************************************)
\* the i-th iteration met a gap and found a candidate path for it
CandidateFound(i) == fg_out.steps[i].kind \in {"filled", "discarded"}

\* the pairs of consecutive nodes of a path
ConsecutivePairs(path) == [k \in 1..(Len(path) - 1) |-> <<path[k], path[k + 1]>>]

\* C7: for every gap with a candidate path, the edges of the path are
\* appended to the filler output if and only if the length of the path is
\* strictly below filler_thresh_length and its node count strictly below
\* filler_thresh_num_nodes; otherwise the gap adds nothing and the
\* remembered position becomes unknown (-1).
C7_FilledIffWithinThresholds ==
    phase = "filled" =>
        /\ \A i \in 1..Len(fg_out.steps) :
              CandidateFound(i) =>
                  LET st == fg_out.steps[i]
                      within == /\ st.length < fg_in.thresholds[1]
                                /\ Len(st.path) < fg_in.thresholds[2]
                  IN  /\ st.length = path_length(st.path)
                      /\ within => st.added = ConsecutivePairs(st.path) /\ st.added # <<>>
                      /\ ~within => st.added = <<>> /\ st.next = -1
        /\ fg_out.filler_edges
               = Concat([i \in 1..Len(fg_out.steps) |-> fg_out.steps[i].added])

\* with the default thresholds, a route whose first gap (23 m, three nodes)
\* is filled and whose second gap (the 50 m edge 6-7) is discarded
C7_Witness ==
    /\ phase = "filled"
    /\ Len(fg_out.steps) = 3
    /\ fg_in.thresholds = <<filler_thresh_length, filler_thresh_num_nodes>>
    /\ fg_out.steps[2].kind = "filled"
    /\ fg_out.steps[2].length = 23
    /\ fg_out.steps[2].added = << <<3, 4>>, <<4, 5>> >>
    /\ fg_out.steps[3].kind = "discarded"
    /\ fg_out.steps[3].length = 50
    /\ fg_out.steps[3].next = -1
    /\ fg_out.filler_edges = << <<3, 4>>, <<4, 5>> >>

\* the two ends of an edge
Ends(e) == {e[1], e[2]}

\* b is a single graph edge (of key 0) of 15 m from an end of e1 to an end
\* of e2
Bridge15(b, e1, e2) ==
    /\ b \in EdgeIds
    /\ b[3] = 0
    /\ EdgeRow(b).length = 15
    /\ b[1] \in Ends(e1)
    /\ b[2] \in Ends(e2)

Selected(b, p, e) ==
    LET sp == shortest_path(p, Normalised(e)[1], Normalised(e)[2])
    IN  /\ ~sp.NodeNotFound
        /\ ~sp.u_path.isNone
        /\ ~sp.v_path.isNone
        /\ ChoosePath(sp.u_path.nodes, sp.v_path.nodes, Normalised(e)).path = <<b[1], b[2]>>

max_distance == 10

MIN_STREAK == 3

\* ox.nearest_edges for one point p = <<lat, lon>>: the edge and the
\* (squared) distance; among equally near edges the library's choice
NearestEdge(p, tie) ==
    FirstRow({[id |-> r.id, pos |-> r.pos, d2 |-> GeomDist2(r.id, p[2], p[1])] :
                 r \in GdfEdges}, tie)

\* es = [(e, es[1][i], self.points[i]) ...]
Sample(row, p) == [edge |-> row.id, d2 |-> row.d2, point |-> p]

NearestEdges(points, tie) ==
    Tabulate(LAMBDA i : Sample(NearestEdge(points[i], tie), points[i]), Len(points))

\* dist < max_distance
Near(e) == e.d2 < Sq(max_distance)

\* es2: the samples near enough to their edge
Retained(es) == SelectSeq(es, Near)

\* ((-1,-1,-1), -1, (-1,-1)), appended to es2 to close the last streak
Sentinel == [edge |-> <<-1, -1, -1>>, d2 |-> -1, point |-> <<-1, -1>>]

\* min(d0, d1), squared: the distance from the sample to the nearer end node
\* of its edge
EndDist2(e) ==
    Min(PointDist2(NodeXY[e.edge[1]][1], NodeXY[e.edge[1]][2], e.point[2], e.point[1]),
        PointDist2(NodeXY[e.edge[2]][1], NodeXY[e.edge[2]][2], e.point[2], e.point[1]))

\* dist/length of a sample, as the pair (dist squared, length)
Ratio(e) == [d2 |-> EndDist2(e), length |-> EdgeRow(e.edge).length]

\* a <= b for two such ratios
RatioLeq(a, b) == a.d2 * Sq(b.length) <= b.d2 * Sq(a.length)

\* max(l)
MaxRatio(l) == CHOOSE a \in Range(l) : \A b \in Range(l) : RatioLeq(b, a)

\* r > 0.2, that is 5 * dist > length
ExceedsFifth(r) == 25 * r.d2 > Sq(r.length)

\* l, the ratios of the samples of a streak
StreakRatios(streak) == Tabulate(LAMBDA i : Ratio(streak[i]), Len(streak))

\* a heuristic that judges a short streak by its first sample
StreakAccepted_first_sample(streak) ==
    IF Len(streak) >= MIN_STREAK THEN TRUE ELSE ExceedsFifth(Ratio(streak[1]))

\* a heuristic that wants every sample of a short streak away from the ends
StreakAccepted_every_sample(streak) ==
    IF Len(streak) >= MIN_STREAK THEN TRUE
    ELSE \A i \in 1..Len(streak) : ExceedsFifth(Ratio(streak[i]))

\* whether the streak that ends is added to es3
StreakAccepted(streak) ==
    IF Len(streak) >= MIN_STREAK THEN TRUE ELSE ExceedsFifth(MaxRatio(StreakRatios(streak)))

\* the loop's variables; log records the streaks that ended and what became
\* of them
LoopState(prev_e, edge_streak, es3, log) ==
    [prev_e |-> prev_e, edge_streak |-> edge_streak, es3 |-> es3, log |-> log]

\* the body of the loop when the edge changes: the streak ends
EndStreak(st, e, accepted) ==
    LoopState([isNone |-> FALSE, e |-> e], <<e>>,
              IF accepted THEN st.es3 \o st.edge_streak ELSE st.es3,
              Append(st.log, [streak |-> st.edge_streak, accepted |-> accepted]))

\* one iteration of the loop for the item e
StreakIteration(st, e) ==
    IF ~st.prev_e.isNone /\ st.prev_e.e.edge # e.edge
    THEN EndStreak(st, e, StreakAccepted(st.edge_streak))
    ELSE LoopState([isNone |-> FALSE, e |-> e], Append(st.edge_streak, e), st.es3, st.log)

RECURSIVE StreakLoop(_, _, _)
\* the iterations from items[i] on
StreakLoop(st, items, i) ==
    IF i > Len(items) THEN st
    ELSE With(StreakIteration(st, items[i]), LAMBDA st1 : StreakLoop(st1, items, i + 1))

\* the call from es on
AfterNearest(es, es2, st) ==
    [outcome |-> "return", es |-> es, es2 |-> es2, log |-> st.log, es3 |-> st.es3,
     last_streak |-> st.edge_streak,
     route |-> Tabulate(LAMBDA i : st.es3[i].edge, Len(st.es3))]

Streaks(es, es2) ==
    AfterNearest(es, es2,
                 StreakLoop(LoopState([isNone |-> TRUE], <<>>, <<>>, <<>>),
                            Append(es2, Sentinel), 1))

\* match_graph2(G) for a track with the samples points.  With no sample,
\* ox.nearest_edges of the osmnx releases this code is written for unpacks
\* an empty zip and raises ValueError, other releases return empty lists:
\* empty_raises is the outcome the installed library has.
match_graph2(points, tie, empty_raises) ==
    IF points = <<>> /\ empty_raises
    THEN [outcome |-> "ValueError", es |-> <<>>, es2 |-> <<>>, log |-> <<>>, es3 |-> <<>>,
          last_streak |-> <<>>, route |-> <<>>]
    ELSE With(NearestEdges(points, tie), LAMBDA es : Streaks(es, Retained(es)))

(***************************************************************************)
(* match_graph2 on its own: SpecStreak draws the samples of a track.       *)
(***************************************************************************)
MaxSamples == 4

\* samples <<lat, lon>>: on the street 1-2 at 2 m, 4 m and 10 m from node 1,
\* on the street 2-3, 12 m off the street 1-2, and beside the long edge 6-7
SamplePoints == { <<0, 2>>, <<0, 4>>, <<0, 10>>, <<0, 30>>, <<12, 10>>, <<5, 68>> }

StreakInit ==
    /\ phase = "track"
    /\ m2_in \in SeqUpTo(SamplePoints, MaxSamples)
    /\ m2_out = None
    /\ tie_order \in TieOrders
    /\ track = None
    /\ loop = None
    /\ cache_path = None
    /\ request_cache = NoDict
    /\ disk = [dir |-> FALSE, file |-> NoDict]
    /\ ncalls = 0
    /\ served = Unserved
    /\ call = NoCall
    /\ resp = None
    /\ parsed = None
    /\ fg_in = None
    /\ fg_out = None

\* track.match_graph2(G)
MatchGraph2(empty_raises) ==
    /\ phase = "track"
    /\ phase' = "matched"
    /\ m2_out' = match_graph2(m2_in, tie_order, empty_raises)
    /\ UNCHANGED <<cache_path, request_cache, disk, ncalls, served, call, resp,
                   parsed, fg_in, fg_out, m2_in, tie_order,
                   track, loop>>

StreakNext == \E empty_raises \in BOOLEAN : MatchGraph2(empty_raises)

SpecStreak == StreakInit /\ [][StreakNext]_vars

(***************************************************************************)
(* The Streak Matcher: claims C9 and C10, under SpecStreak.                *)
(***************************************************************************)
\* the squared distance from the point p = <<lat, lon>> to the nearest edge
NearestDist2(p) == Least({GeomDist2(r.id, p[2], p[1]) : r \in GdfEdges})

\* the first and the last index of the streak that the i-th retained sample
\* belongs to: the maximal run of samples around i with the same edge
StreakFirst(es2, i) ==
    Least({s \in 1..i : \A k \in s..i : es2[k].edge = es2[i].edge})

StreakLast(es2, i) ==
    -Least({-t : t \in {u \in i..Len(es2) : \A k \in i..u : es2[k].edge = es2[i].edge}})

\* the sample e is further from both end nodes of its edge than a fifth of
\* the edge's length
AwayFromEnds(e) ==
    LET len == EdgeRow(e.edge).length
        n0  == NodeXY[e.edge[1]]
        n1  == NodeXY[e.edge[2]]
    IN  /\ 25 * (Sq(n0[1] - e.point[2]) + Sq(n0[2] - e.point[1])) > Sq(len)
        /\ 25 * (Sq(n1[1] - e.point[2]) + Sq(n1[2] - e.point[1])) > Sq(len)

\* the streak of the i-th retained sample is accepted according to C9
Accepted(es2, i) ==
    \/ StreakLast(es2, i) - StreakFirst(es2, i) + 1 >= 3
    \/ \E k \in StreakFirst(es2, i)..StreakLast(es2, i) : AwayFromEnds(es2[k])

RECURSIVE AcceptedEdges(_, _)
\* the edges of the retained samples from the i-th on whose streak is accepted
AcceptedEdges(es2, i) ==
    IF i > Len(es2) THEN <<>>
    ELSE (IF Accepted(es2, i) THEN <<es2[i].edge>> ELSE <<>>) \o AcceptedEdges(es2, i + 1)

\* C9: the route consists, in the original order, of the edges of the
\* samples of the accepted streaks: a streak (the last one of the track
\* included) of three or more samples is accepted whatever its ratios; a
\* shorter one if and only if its greatest ratio (distance to the nearer end
\* node / edge length) exceeds 0.2; a rejected streak adds nothing.
C9_StreaksAccepted ==
    (phase = "matched" /\ m2_out.outcome = "return")
        => /\ m2_out.es2 = SelectSeq(m2_out.es, LAMBDA e : e.d2 < Sq(max_distance))
           /\ m2_out.route = AcceptedEdges(m2_out.es2, 1)

\* three samples on the street 1-2, none of them further than a fifth from
\* node 1, are accepted; the single sample that ends the track, beside the
\* edge 6-7 and close to node 6, is rejected
C9_Witness ==
    /\ phase = "matched"
    /\ m2_out.outcome = "return"
    /\ Len(m2_out.es2) = 4
    /\ Len(m2_out.log) = 2
    /\ Len(m2_out.log[1].streak) = 3
    /\ \A k \in 1..3 : ~AwayFromEnds(m2_out.es2[k])
    /\ m2_out.log[1].accepted
    /\ ~m2_out.log[2].accepted
    /\ Len(m2_out.route) = 3

\* C10: a track none of whose samples lies within max_distance of a graph
\* edge (a track without samples included) gets the empty route; and every
\* edge of a route is the nearest edge of a retained sample, the sentinel
\* edge never being one.
C10_OutsideTrackEmptyRoute ==
    phase = "matched" =>
        /\ (\A i \in 1..Len(m2_in) : NearestDist2(m2_in[i]) >= Sq(max_distance))
              => (m2_out.outcome = "return" /\ m2_out.route = <<>>)
        /\ m2_out.outcome = "return" =>
              /\ Range(m2_out.route) \subseteq {m2_out.es2[i].edge : i \in 1..Len(m2_out.es2)}
              /\ \A i \in 1..Len(m2_out.es2) :
                    /\ NearestDist2(m2_out.es2[i].point) < Sq(max_distance)
                    /\ m2_out.es2[i].d2 = NearestDist2(m2_out.es2[i].point)
                    /\ GeomDist2(m2_out.es2[i].edge, m2_out.es2[i].point[2],
                                 m2_out.es2[i].point[1]) = m2_out.es2[i].d2
              /\ Sentinel.edge \notin Range(m2_out.route)

\* C10 for the tracks that have a sample
C10_TrackWithSamples == m2_in # <<>> => C10_OutsideTrackEmptyRoute

\* the track without samples, where ox.nearest_edges raises
C10_Witness ==
    /\ phase = "matched"
    /\ m2_in = <<>>
    /\ m2_out.outcome = "ValueError"

(***************************************************************************)
(* GPSTrack.__init__ and GPSTrack.from_gpx.  A GPX file is modelled by     *)
(* whether name_pattern finds a <name> in it and by its <trkpt> elements:  *)
(* for each, what point_pattern and what date_pattern find in its text.    *)
(***************************************************************************)
MaxTrkpts == 2

MaxOps == 2

\* what point_pattern finds in a <trkpt>: a lat and a lon that float()
\* accepts, a lat or lon of the pattern [\d.-]+ that float() refuses (such as
\* "1.2.3"), or nothing
TrkptCoords ==
    {[found |-> "floats", lat |-> 0, lon |-> 10],
     [found |-> "floats", lat |-> 0, lon |-> 30],
     [found |-> "not_floats", lat |-> 0, lon |-> 0],
     [found |-> "nothing", lat |-> 0, lon |-> 0]}

\* what date_pattern finds in a <trkpt>: a time of the format strptime is
\* given, a time of another format, or nothing
TrkptTimes ==
    {[found |-> "time", t |-> 1],
     [found |-> "other_format", t |-> 0],
     [found |-> "nothing", t |-> 0]}

Trkpts == {[coords |-> c, time |-> t] : c \in TrkptCoords, t \in TrkptTimes}

GpxContents == {[name |-> n, trkpts |-> ps] : n \in BOOLEAN, ps \in SeqUpTo(Trkpts, MaxTrkpts)}

\* the points and timestamps a caller can hand to the constructor
PointLists == SeqUpTo({<<0, 10>>, <<0, 30>>}, MaxTrkpts)

TimestampLists == SeqUpTo({1}, MaxTrkpts)

\* __init__: the fields are stored as given; matched_points is no attribute
\* of the object until match_graph sets it
NewTrack(points, timestamps) ==
    [points |-> points, timestamps |-> timestamps,
     has_matched_points |-> FALSE, matched_points |-> <<>>]

Built(obj) == [outcome |-> "return", obj |-> obj]

Raised(exc) == [outcome |-> exc, obj |-> NewTrack(<<>>, <<>>)]

\* points = [tuple(float(p) for p in point) for point in points]
GpxPoints(trkpts) ==
    Tabulate(LAMBDA i : <<trkpts[i].coords.lat, trkpts[i].coords.lon>>, Len(trkpts))

\* timestamps = [datetime.strptime(cls.date_pattern.search(text).group(1), ...)
\*               for text in track_points]: the first <trkpt> without a time
\* raises AttributeError (None.group), the first with a time of another
\* format raises ValueError
GpxTimestamps(trkpts) ==
    IF \E i \in 1..Len(trkpts) : trkpts[i].time.found # "time"
    THEN Raised(IF trkpts[Least({i \in 1..Len(trkpts) : trkpts[i].time.found # "time"})]
                       .time.found = "nothing"
                THEN "AttributeError" ELSE "ValueError")
    ELSE Built(NewTrack(GpxPoints(trkpts),
                        Tabulate(LAMBDA i : trkpts[i].time.t, Len(trkpts))))

\* from_gpx: name_pattern.search(content).group(1) raises AttributeError
\* without a <name>; a <trkpt> point_pattern does not match stops at
\* breakpoint() and then raises AttributeError at point.groups(); float()
\* raises ValueError
from_gpx(content) ==
    IF ~content.name THEN Raised("AttributeError")
    ELSE IF \E i \in 1..Len(content.trkpts) : content.trkpts[i].coords.found = "nothing"
    THEN Raised("AttributeError")
    ELSE IF \E i \in 1..Len(content.trkpts) : content.trkpts[i].coords.found = "not_floats"
    THEN Raised("ValueError")
    ELSE GpxTimestamps(content.trkpts)

\* self.matched_points = [(p['lat'],p['lon']) for p in matched_points]: the
\* only assignment to a field of self in match_graph, reached when a text is
\* parsed (r.parsed_text is that text, 0 when the call ended before)
AfterMatchGraph(obj, r) ==
    IF r.parsed_text = 0 THEN obj
    ELSE [obj EXCEPT
             !.has_matched_points = TRUE,
             !.matched_points =
                 Tabulate(LAMBDA i : <<MatchedOnly(json_loads(r.parsed_text).matched_points)[i].lat,
                                       MatchedOnly(json_loads(r.parsed_text).matched_points)[i].lon>>,
                          Len(MatchedOnly(json_loads(r.parsed_text).matched_points)))]

\* the track variable: how the object was built, what the construction gave,
\* the object as it was built, the object now, and the number of methods
\* called on it
TrackState(how, r) ==
    [how |-> how, outcome |-> r.outcome, made |-> r.obj, obj |-> r.obj, ops |-> 0]

TrackInit ==
    /\ phase = "gpx"
    /\ cache_path = None
    /\ request_cache = NoDict
    /\ disk = [dir |-> FALSE, file |-> NoDict]
    /\ ncalls = 0
    /\ served = Unserved
    /\ call = NoCall
    /\ resp = None
    /\ parsed = None
    /\ fg_in = None
    /\ fg_out = None
    /\ m2_in = None
    /\ m2_out = None
    /\ tie_order = "index"
    /\ track = None
    /\ loop = None

\* GPSTrack.from_gpx(filepath)
FromGpx(content) ==
    /\ phase = "gpx"
    /\ \E r \in {from_gpx(content)} :
          /\ track' = TrackState("from_gpx", r)
          /\ phase' = IF r.outcome = "return" THEN "track" ELSE "raised"
    /\ UNCHANGED <<cache_path, request_cache, disk, ncalls, served, call, resp,
                   parsed, fg_in, fg_out, m2_in, m2_out, tie_order, loop>>

\* GPSTrack(name, points, timestamps, track_type, date)
Construct(points, timestamps) ==
    /\ phase = "gpx"
    /\ track' = TrackState("constructor", Built(NewTrack(points, timestamps)))
    /\ phase' = "track"
    /\ UNCHANGED <<cache_path, request_cache, disk, ncalls, served, call, resp,
                   parsed, fg_in, fg_out, m2_in, m2_out, tie_order, loop>>

\* track.match_graph(G, url), the request having the fingerprint request_hash
\* and the server answering a request that is sent with (status, text)
TrackMatched(request_hash, status, text) ==
    \E r \in {match_graph(request_hash, request_cache, cache_path, disk, status, text,
                          tie_order)} :
        /\ request_cache' = r.request_cache
        /\ track' = [track EXCEPT !.ops = @ + 1, !.obj = AfterMatchGraph(@, r)]

TrackMatchGraph ==
    /\ phase = "track"
    /\ track.ops < MaxOps
    /\ \E request_hash \in {my_hash(DumpsRequest(track.obj.points))} :
          \E status \in StatusCodes, text \in ResponseTexts :
              TrackMatched(request_hash, status, text)
    /\ UNCHANGED <<phase, cache_path, disk, ncalls, served, call, resp, parsed,
                   fg_in, fg_out, m2_in, m2_out, tie_order, loop>>

\* track.match_graph2(G): self.points is read, no field is assigned
TrackMatchGraph2(empty_raises) ==
    /\ phase = "track"
    /\ track.ops < MaxOps
    /\ m2_in' = track.obj.points
    /\ m2_out' = match_graph2(track.obj.points, tie_order, empty_raises)
    /\ track' = [track EXCEPT !.ops = @ + 1]
    /\ UNCHANGED <<phase, cache_path, request_cache, disk, ncalls, served, call,
                   resp, parsed, fg_in, fg_out, tie_order, loop>>

TrackNext ==
    \/ \E content \in GpxContents : FromGpx(content)
    \/ \E points \in PointLists, timestamps \in TimestampLists : Construct(points, timestamps)
    \/ TrackMatchGraph
    \/ \E empty_raises \in BOOLEAN : TrackMatchGraph2(empty_raises)

SpecTrack == TrackInit /\ [][TrackNext]_vars

(***************************************************************************)
(* The track object: claim C11, under SpecTrack.                           *)
(***************************************************************************)
\* no method called on the track has changed its points or its timestamps
SequencesKept ==
    /\ track.obj.points = track.made.points
    /\ track.obj.timestamps = track.made.timestamps

C11_FromGpx ==
    phase = "track" =>
        /\ track.how = "from_gpx" => Len(track.obj.points) = Len(track.obj.timestamps)
        /\ SequencesKept

MaxBatch == 3

\* the batches: lists of tracks (indexes into Tracks)
Batches == SeqUpTo(1..Len(Tracks), MaxBatch)

\* the texts the server answers a batch with: a route, a point on a way with
\* a single edge, no matched point
BatchTexts == {1, 3, 4}

\* the loop variable: the batch, the index of the track the loop is at, and
\* per track submitted so far what its call gave; matched_tracks of main()
LoopState0(tracks) == [tracks |-> tracks, i |-> 1, log |-> <<>>, matched_tracks |-> <<>>]

\* one line of the log: the track, the status the server answered with (0 if
\* it was not asked) and what match_graph gave
LogLine(t, status, r) ==
    [track |-> t, status |-> IF r.net > 0 THEN status ELSE 0, outcome |-> r.outcome]

\* route = track.match_graph(...): None, or the pair (edges, filler edges)
Route(r) == IF r.outcome = "None" THEN <<>> ELSE <<r.edges, r.filler>>

\* the body of the loop for track t, whose call gave r: if route is None
\* ... elif len(route) == 0 ... else matched_tracks.append((track, route));
\* after an exception nothing of the body runs
LoopBody(l, t, status, r) ==
    IF r.outcome \notin {"None", "return"}
    THEN [l EXCEPT !.log = Append(@, LogLine(t, status, r))]
    ELSE IF r.outcome = "None" \/ Len(Route(r)) = 0
    THEN [l EXCEPT !.i = @ + 1, !.log = Append(@, LogLine(t, status, r))]
    ELSE [l EXCEPT !.i = @ + 1, !.log = Append(@, LogLine(t, status, r)),
                   !.matched_tracks = Append(@, [track |-> t, route |-> Route(r)])]

BatchInit ==
    /\ phase = "setup"
    /\ cache_path = None
    /\ request_cache = NoDict
    /\ disk = [dir |-> FALSE, file |-> NoDict]
    /\ ncalls = 0
    /\ served = Unserved
    /\ call = NoCall
    /\ resp = None
    /\ parsed = None
    /\ fg_in = None
    /\ fg_out = None
    /\ m2_in = None
    /\ m2_out = None
    /\ tie_order = "index"
    /\ track = None
    /\ loop \in {LoopState0(b) : b \in Batches}

\* for track in tqdm(tracks): route = track.match_graph(G, args.valhalla) ...
MatchNextTrack(status, text) ==
    /\ phase = "matching"
    /\ loop.i <= Len(loop.tracks)
    /\ ncalls' = ncalls + 1
    /\ \E t \in {loop.tracks[loop.i]} :
       \E r \in {match_graph(RequestHashes[t], request_cache, cache_path, disk,
                             status, text, tie_order)} :
          /\ request_cache' = r.request_cache
          /\ disk' = r.disk
          /\ call' = CallRecord(t, request_cache, served[t], status, text, r)
          /\ served' = Serve(served, t, status, r)
          /\ loop' = LoopBody(loop, t, status, r)
          /\ phase' = IF r.outcome \in {"None", "return"} THEN phase ELSE "crashed"
    /\ UNCHANGED <<cache_path, resp, parsed, fg_in, fg_out, m2_in, m2_out, tie_order,
                   track>>

\* print("Matching done.")
MatchingDone ==
    /\ phase = "matching"
    /\ loop.i > Len(loop.tracks)
    /\ phase' = "done"
    /\ UNCHANGED <<cache_path, request_cache, disk, ncalls, served, call, resp,
                   parsed, fg_in, fg_out, m2_in, m2_out, tie_order, track, loop>>

BatchNext ==
    \/ \E cachefile \in CachePaths \cup {None} : Setup(cachefile)
    \/ \E status \in StatusCodes, text \in BatchTexts : MatchNextTrack(status, text)
    \/ MatchingDone

SpecBatch == BatchInit /\ [][BatchNext]_vars

(***************************************************************************)
(* The matching loop: claim C12, under SpecBatch.                          *)
(***************************************************************************)
\* the j-th track of the batch was submitted and the server answered it with
\* a status other than 200
FailedAt(j) ==
    /\ j <= Len(loop.log)
    /\ loop.log[j].status \notin {0, 200}

\* the tracks submitted so far are the first tracks of the batch, in order,
\* a failed track is not among the matched tracks, and every track whose
\* call returned a route is
OnlyFailedUnmatched ==
    /\ Len(loop.log) <= Len(loop.tracks)
    /\ \A j \in 1..Len(loop.log) : loop.log[j].track = loop.tracks[j]
    /\ \A j \in 1..Len(loop.log) : FailedAt(j) => loop.log[j].outcome = "None"
    /\ SelectSeq(loop.log, LAMBDA e : e.outcome = "return")
           = Tabulate(LAMBDA k : [track |-> loop.matched_tracks[k].track,
                                  status |-> SelectSeq(loop.log, LAMBDA e : e.outcome = "return")[k].status,
                                  outcome |-> "return"],
                      Len(loop.matched_tracks))

\* C12: a non-200 response for one track marks only that track as unmatched
\* (it is not added to matched_tracks, the tracks that return a route are),
\* and every remaining track of the batch is still submitted, in order: when
\* the program has left the loop, all tracks after the failed one have been
\* submitted.
C12_BatchIsolation ==
    phase \in {"matching", "done", "crashed"} =>
        /\ OnlyFailedUnmatched
        /\ \A j \in 1..Len(loop.log) :
              (FailedAt(j) /\ phase \in {"done", "crashed"})
                  => Len(loop.log) = Len(loop.tracks)

\* C12 for the step after the failure: the loop goes on to the next track
\* (the failure itself never ends the loop), and a loop that reaches its end
\* has submitted every track
C12_FailureDoesNotStopLoop ==
    phase \in {"matching", "done", "crashed"} =>
        /\ OnlyFailedUnmatched
        /\ \A j \in 1..Len(loop.log) :
              FailedAt(j) => (loop.i > j /\ (j = Len(loop.log) => phase # "crashed"))
        /\ phase = "done" => Len(loop.log) = Len(loop.tracks)

\* the first track is answered with 503, the second with a point whose way
\* has a single edge (the IndexError of C4): the third is never submitted
C12_Witness ==
    /\ phase = "crashed"
    /\ Len(loop.tracks) = 3
    /\ Len(loop.log) = 2
    /\ loop.log[1].status = 503
    /\ loop.log[1].outcome = "None"
    /\ loop.log[2].outcome = "IndexError"
    /\ loop.matched_tracks = <<>>

(***************************************************************************)
(* The Gap Filler, steps 2 and 3: claims C13 to C15, under SpecFill.       *)
(***************************************************************************)
\* the i-th pair of consecutive deduplicated edges shares an endpoint
Connected(i) == Ends(fg_out.steps[i].e_cur) \cap Ends(fg_out.steps[i].e_next) # {}

\* the i-th iteration ran no search and added nothing to the filler output
NothingSearchedOrAdded(i) ==
    /\ fg_out.steps[i].kind = "connected"
    /\ fg_out.steps[i].path = <<>>
    /\ fg_out.steps[i].added = <<>>

\* the position the i-th iteration leaves is the one the next one starts from
HandedOn(i) == i < Len(fg_out.steps) => fg_out.steps[i + 1].pos = fg_out.steps[i].next

\* C13 as stated: when two consecutive deduplicated edges share an endpoint,
\* no search is run, nothing is added to the filler output, and the
\* remembered position after the step is the shared endpoint.
C13_ConnectedRemembersShared ==
    phase = "filled" =>
        \A i \in 1..Len(fg_out.steps) :
            Connected(i) =>
                /\ NothingSearchedOrAdded(i)
                /\ fg_out.steps[i].next
                       \in Ends(fg_out.steps[i].e_cur) \cap Ends(fg_out.steps[i].e_next)

\* C13 amended: when two consecutive deduplicated edges share an endpoint,
\* no search is run, nothing is added to the filler output, and the
\* remembered position after the step is the endpoint of the next edge that
\* is not the shared one; the following step starts from it.
C13_ConnectedRemembersFarEnd ==
    phase = "filled" =>
        \A i \in 1..Len(fg_out.steps) :
            Connected(i) =>
                /\ NothingSearchedOrAdded(i)
                /\ fg_out.steps[i].next
                       \in Ends(fg_out.steps[i].e_next) \ Ends(fg_out.steps[i].e_cur)
                /\ HandedOn(i)

\* the route 2->1, 2->3, 5->6: after the connected pair (1,2), (2,3) the
\* position is node 3, not the shared node 2, and the gap is searched from 3
C13_Witness ==
    /\ phase = "filled"
    /\ fg_in.edges = << <<2, 1, 0>>, <<2, 3, 0>>, <<5, 6, 0>> >>
    /\ Connected(1)
    /\ fg_out.steps[1].e_cur = <<1, 2>>
    /\ fg_out.steps[1].e_next = <<2, 3>>
    /\ fg_out.steps[1].next = 3
    /\ fg_out.steps[2].pos = 3
    /\ ~Connected(2)

\* the two candidate paths of the i-th iteration: from the position it
\* starts at to each endpoint of the next edge
CandidatesAt(i) ==
    shortest_path(fg_out.steps[i].pos, fg_out.steps[i].e_next[1], fg_out.steps[i].e_next[2])

\* the node where a path ends
PathEnd(path) == path[Len(path)]

\* the i-th iteration accepted a bridge: its path is the candidate whose
\* summed edge length is the smaller one (the path to the second endpoint
\* when both are equally long), and all its edges were appended
ShorterCandidateAppended(i) ==
    LET st == fg_out.steps[i]
        sp == CandidatesAt(i)
    IN  /\ ~sp.NodeNotFound /\ ~sp.u_path.isNone /\ ~sp.v_path.isNone
        /\ PathEnd(sp.u_path.nodes) = st.e_next[1]
        /\ PathEnd(sp.v_path.nodes) = st.e_next[2]
        /\ st.path = IF path_length(sp.u_path.nodes) < path_length(sp.v_path.nodes)
                     THEN sp.u_path.nodes ELSE sp.v_path.nodes
        /\ st.length = Min(path_length(sp.u_path.nodes), path_length(sp.v_path.nodes))
        /\ st.added = ConsecutivePairs(st.path)
        /\ \E k \in 1..Len(fg_out.filler_edges) :
              SubSeq(fg_out.filler_edges, k, k + Len(st.added) - 1) = st.added

\* C14 as stated: when a bridge is accepted, the chosen path is the shorter
\* of the two candidates, all its edges are appended to the filler output,
\* and the remembered position becomes the endpoint of the next edge where
\* the chosen path ends; a directly following gap is searched from there.
C14_AcceptedMovesToPathEnd ==
    phase = "filled" =>
        \A i \in 1..Len(fg_out.steps) :
            fg_out.steps[i].kind = "filled" =>
                /\ ShorterCandidateAppended(i)
                /\ fg_out.steps[i].next = PathEnd(fg_out.steps[i].path)
                /\ HandedOn(i)

\* C14 amended: ... and the remembered position becomes the endpoint of the
\* next edge where the chosen path does not end (the far end of the next
\* edge); a directly following gap is searched from there.
C14_AcceptedMovesToFarEnd ==
    phase = "filled" =>
        \A i \in 1..Len(fg_out.steps) :
            fg_out.steps[i].kind = "filled" =>
                /\ ShorterCandidateAppended(i)
                /\ fg_out.steps[i].next
                       \in Ends(fg_out.steps[i].e_next) \ {PathEnd(fg_out.steps[i].path)}
                /\ HandedOn(i)

\* the route 1-2, 2-3, 4-5, 7-8: the gap after node 3 is bridged by the edge
\* 3->4 (15 m, against 23 m to node 5), the position becomes node 5, and the
\* gap that follows is searched from node 5
C14_Witness ==
    /\ phase = "filled"
    /\ fg_in.thresholds = <<filler_thresh_length, filler_thresh_num_nodes>>
    /\ fg_in.edges = << <<1, 2, 0>>, <<2, 3, 0>>, <<4, 5, 0>>, <<7, 8, 0>> >>
    /\ fg_out.steps[2].kind = "filled"
    /\ fg_out.steps[2].path = <<3, 4>>
    /\ fg_out.steps[2].length = 15
    /\ path_length(CandidatesAt(2).v_path.nodes) = 23
    /\ fg_out.steps[2].next = 5
    /\ fg_out.steps[3].pos = 5
    /\ fg_out.steps[3].kind = "discarded"

RECURSIVE ReachedWithin(_, _)
\* the nodes that directed edges of G lead to from the nodes S in at most k
\* steps
ReachedWithin(S, k) ==
    IF k = 0 THEN S
    ELSE ReachedWithin(S \cup {e[2] : e \in {d \in EdgeIds : d[1] \in S}}, k - 1)

\* node t can be reached from node s along directed edges of G
Reachable(s, t) == s \in Nodes /\ t \in ReachedWithin({s}, NumNodes)

\* the position the i-th iteration starts from is unknown
PositionUnknown(i) == fg_out.steps[i].pos = -1

\* both endpoints of the next edge of the i-th iteration can be reached from
\* the position it starts from
BothEndsReachable(i) ==
    /\ Reachable(fg_out.steps[i].pos, fg_out.steps[i].e_next[1])
    /\ Reachable(fg_out.steps[i].pos, fg_out.steps[i].e_next[2])

\* C15: the walk visits every pair of consecutive deduplicated edges and
\* returns; a gap met while the position is unknown (as at the first
\* transition of the route and right after a discarded bridge) or for which
\* no path exists adds no filler edge and leaves the position unknown; a gap
\* is filled only when both endpoints of the next edge are reachable from
\* the position.
C15_UnknownPositionOrNoPath ==
    phase = "filled" =>
        /\ Len(fg_out.steps) = Max(Len(fg_out.uni) - 1, 0)
        /\ \A i \in 1..Len(fg_out.steps) :
              /\ fg_out.steps[i].e_cur = fg_out.uni[i]
              /\ fg_out.steps[i].e_next = fg_out.uni[i + 1]
              /\ i = 1 => PositionUnknown(i)
              /\ (i > 1 /\ fg_out.steps[i - 1].kind = "discarded") => PositionUnknown(i)
              /\ (~Connected(i) /\ (PositionUnknown(i) \/ ~BothEndsReachable(i)))
                     => /\ fg_out.steps[i].kind \in {"notfound", "nopath"}
                        /\ fg_out.steps[i].added = <<>>
                        /\ fg_out.steps[i].next = -1
              /\ fg_out.steps[i].kind = "filled"
                     => (~PositionUnknown(i) /\ BothEndsReachable(i))
        /\ Range(fg_out.result) \subseteq EdgeIds

\* the route 1-2, 2-3, 9->8, 4-5: node 9 cannot be reached from node 3, the
\* gap is left open and the position is lost, so the gap that follows is
\* skipped too; the walk ends with no filler edge
C15_Witness ==
    /\ phase = "filled"
    /\ fg_in.edges = << <<1, 2, 0>>, <<2, 3, 0>>, <<9, 8, 0>>, <<4, 5, 0>> >>
    /\ Len(fg_out.steps) = 3
    /\ fg_out.steps[2].pos = 3
    /\ Reachable(3, 8)
    /\ ~Reachable(3, 9)
    /\ fg_out.steps[2].kind = "nopath"
    /\ fg_out.steps[2].next = -1
    /\ fg_out.steps[3].kind = "notfound"
    /\ fg_out.result = <<>>

(***************************************************************************)
(* The Streak Matcher, short streaks: claim C16, under SpecStreak.         *)
(***************************************************************************)
\* the k-th streak that ended has fewer than MIN_STREAK samples
ShortStreak(k) == Len(m2_out.log[k].streak) < 3

\* every sample / some sample of the k-th streak is further from both end
\* nodes of the edge than a fifth of the edge's length
EverySampleAway(k) ==
    \A i \in 1..Len(m2_out.log[k].streak) : AwayFromEnds(m2_out.log[k].streak[i])

SomeSampleAway(k) ==
    \E i \in 1..Len(m2_out.log[k].streak) : AwayFromEnds(m2_out.log[k].streak[i])

\* C16 as stated: a streak of fewer than 3 samples is accepted only if the
\* ratio of every sample in it exceeds 0.2.
C16_ShortStreakEverySample ==
    (phase = "matched" /\ m2_out.outcome = "return") =>
        \A k \in 1..Len(m2_out.log) :
            (ShortStreak(k) /\ m2_out.log[k].accepted) => EverySampleAway(k)

\* C16 amended: a streak of fewer than 3 samples is accepted only if the
\* ratio of at least one sample in it exceeds 0.2 (and then it is accepted).
C16_ShortStreakSomeSample ==
    (phase = "matched" /\ m2_out.outcome = "return") =>
        \A k \in 1..Len(m2_out.log) :
            ShortStreak(k) => (m2_out.log[k].accepted <=> SomeSampleAway(k))

\* a streak of two samples on the street 1-2, the first 2 m from node 1
\* (ratio 0.1), the second in the middle of the edge (ratio 0.5): accepted
C16_Witness ==
    /\ phase = "matched"
    /\ m2_out.outcome = "return"
    /\ m2_in = << <<0, 2>>, <<0, 10>> >>
    /\ Len(m2_out.log) = 1
    /\ ShortStreak(1)
    /\ ~AwayFromEnds(m2_out.log[1].streak[1])
    /\ AwayFromEnds(m2_out.log[1].streak[2])
    /\ m2_out.log[1].accepted
    /\ Len(m2_out.route) = 2

(***************************************************************************)
(* The Gap Filler, step 4: claim C17, under SpecFill.                      *)
(***************************************************************************)
\* the pairs (u, v) of the accepted bridges, in the order they were accepted
AcceptedPairs ==
    Concat([i \in 1..Len(fg_out.steps) |->
               IF fg_out.steps[i].kind = "filled"
               THEN ConsecutivePairs(fg_out.steps[i].path) ELSE <<>>])

NothingResolved == \A i \in 1..Len(parsed.log) : parsed.log[i].emitted = <<>>

\* C18: for every response that is parsed, match_graph returns a pair
\* (ordered edges, filler edges) without raising; when no point is tagged
\* "matched", or every matched point is dropped, the two sequences are empty.
C18_AlwaysReturnsPair ==
    phase = "parsed" =>
        /\ parsed.outcome = "return"
        /\ parsed.edges = EmittedEdges(parsed.log)
        /\ NothingResolved => (parsed.edges = <<>> /\ parsed.filler = <<>>)

\* C18 for the responses with a point tagged "matched" and no point whose way
\* has a single candidate edge
C18_WithMatchedPoint ==
    (phase = "parsed" /\ TaggedMatched(resp.matched_points) # <<>> /\ ~SomeSingleCandidate)
        => /\ parsed.outcome = "return"
           /\ parsed.edges = EmittedEdges(parsed.log)
           /\ NothingResolved => (parsed.edges = <<>> /\ parsed.filler = <<>>)

\* a response whose only point is not tagged "matched": matched_points is
\* empty and the match rate divides by its length
C18_Witness ==
    /\ phase = "parsed"
    /\ Len(resp.matched_points) = 1
    /\ resp.matched_points[1].type = "unmatched"
    /\ parsed.matched_points = <<>>
    /\ parsed.log = <<>>
    /\ parsed.outcome = "ZeroDivisionError"

==========================================================================
